---- MODULE Spec2Model ----
(***************************************************************************)
(* Model of internal/proxy/providers/singleflight_middleware.go:           *)
(* SingleFlightProvider, the request-coalescing decorator around a         *)
(* Provider, together with the singleflight.Group it drives.               *)
(*                                                                         *)
(* Strings are sequences of one-character strings, so that fmt.Sprintf,    *)
(* strings.Join and sort.Strings are computed character by character.      *)
(* Every caller (goroutine) owns its argument slice and its SessionState.  *)
(***************************************************************************)
EXTENDS Integers, Sequences, FiniteSets, TLC

(* ------------------------------ bounds --------------------------------- *)

\* number of concurrent callers (goroutines)
NumCallers == 2

Callers == 1..NumCallers

\* longest list of validators handed to the validator runners
MaxValidators == 3

(* ------------------------------ strings -------------------------------- *)

\* byte value of a character, the order sort.Strings compares by
Code(c) ==
  CASE c = "," -> 44
    [] c = "/" -> 47
    [] c = ":" -> 58
    [] c = "a" -> 97
    [] c = "b" -> 98
    [] c = "t" -> 116
    [] c = "u" -> 117
    [] OTHER -> 0

RECURSIVE StrLess(_, _)
\* Go's s < t on strings: lexicographic by byte
StrLess(s, t) ==
  IF t = <<>> THEN FALSE
  ELSE IF s = <<>> THEN TRUE
  ELSE IF Code(Head(s)) < Code(Head(t)) THEN TRUE
  ELSE IF Code(Head(s)) > Code(Head(t)) THEN FALSE
  ELSE StrLess(Tail(s), Tail(t))

RECURSIVE InsertSorted(_, _)
InsertSorted(x, l) ==
  IF l = <<>> THEN <<x>>
  ELSE IF StrLess(x, Head(l)) THEN <<x>> \o l
  ELSE <<Head(l)>> \o InsertSorted(x, Tail(l))

RECURSIVE SortStrings(_)
\* sort.Strings: the slice in increasing order
SortStrings(l) ==
  IF l = <<>> THEN <<>> ELSE InsertSorted(Head(l), SortStrings(Tail(l)))

RECURSIVE JoinNoSep(_, _)
JoinNoSep(elems, sep) ==
  IF elems = <<>> THEN <<>> ELSE Head(elems) \o JoinNoSep(Tail(elems), sep)

RECURSIVE Join(_, _)
\* strings.Join(elems, sep)
Join(elems, sep) ==
  IF elems = <<>> THEN <<>>
  ELSE IF Len(elems) = 1 THEN Head(elems)
  ELSE Head(elems) \o sep \o Join(Tail(elems), sep)

(* --------------------------- operation names --------------------------- *)

CoalescedOps == {"ValidateGroup", "UserGroups", "ValidateSessionToken", "RefreshSessionToken"}
PassThroughOps == {"Data", "Redeem", "GetSignInURL", "GetSignOutURL"}
Ops == CoalescedOps \cup PassThroughOps

CoalescedWithRedeem(op) == op \in CoalescedOps \cup {"Redeem"}

\* which methods of SingleFlightProvider go through p.do
Coalesced(op) == op \in CoalescedOps

\* the endpoint literal each method passes to p.do
Endpoint(op) ==
  CASE op = "ValidateGroup" -> <<"V","a","l","i","d","a","t","e","G","r","o","u","p">>
    [] op = "UserGroups" -> <<"U","s","e","r","G","r","o","u","p","s">>
    [] op = "ValidateSessionToken" ->
         <<"V","a","l","i","d","a","t","e","S","e","s","s","i","o","n","T","o","k","e","n">>
    [] op = "RefreshSessionToken" ->
         <<"R","e","f","r","e","s","h","S","e","s","s","i","o","n","T","o","k","e","n">>
    [] OTHER -> <<"R","e","d","e","e","m">>

(* ------------------------------ inputs --------------------------------- *)

NoStr == <<>>
NoSession == [AccessToken |-> NoStr, RefreshToken |-> NoStr]

Request(op, email, groups, token, session, code) ==
  [op |-> op, email |-> email, groups |-> groups, given |-> groups,
   accessToken |-> token, session |-> session, givenSession |-> session, code |-> code]

NoRequest == Request("none", NoStr, <<>>, NoStr, NoSession, NoStr)

GroupRequest(op, email, groups) == Request(op, email, groups, <<"t">>, NoSession, NoStr)
SessionRequest(op, access, refresh) ==
  Request(op, NoStr, <<>>, NoStr, [AccessToken |-> access, RefreshToken |-> refresh], NoStr)
RedeemRequest(code) == Request("Redeem", NoStr, <<>>, NoStr, NoSession, code)
PlainRequest(op) == Request(op, NoStr, <<>>, NoStr, NoSession, NoStr)

\* group lists: two permutations of one set, and one group over the same characters
GroupsAB == <<<<"a">>, <<"b">>>>
GroupsBA == <<<<"b">>, <<"a">>>>
GroupsOne == <<<<"a", "b">>>>

Permuted(op) == {GroupRequest(op, <<"a">>, GroupsAB), GroupRequest(op, <<"a">>, GroupsBA)}
OtherGroups(op) == {GroupRequest(op, <<"a">>, GroupsAB), GroupRequest(op, <<"a">>, GroupsOne)}
OtherEmail(op) == {GroupRequest(op, <<"a">>, GroupsAB), GroupRequest(op, <<"b">>, GroupsAB)}
OtherRefresh(op) == {SessionRequest(op, <<"t">>, <<"t">>), SessionRequest(op, <<"t">>, <<"u">>)}
OtherAccess(op) == {SessionRequest(op, <<"t">>, <<"t">>), SessionRequest(op, <<"u">>, <<"t">>)}

\* the mixes of calls a run issues: one operation at a time with arguments that
\* agree or differ in one place, and mixes of different operations whose key
\* arguments are equal strings
Workloads ==
  {Permuted("ValidateGroup"), OtherGroups("ValidateGroup"), OtherEmail("ValidateGroup"),
   Permuted("UserGroups"), OtherGroups("UserGroups"), OtherEmail("UserGroups"),
   OtherRefresh("ValidateSessionToken"), OtherAccess("ValidateSessionToken"),
   OtherRefresh("RefreshSessionToken"), OtherAccess("RefreshSessionToken"),
   {RedeemRequest(<<"a">>), RedeemRequest(<<"b">>)},
   {PlainRequest("Data"), PlainRequest("GetSignInURL"), PlainRequest("GetSignOutURL")},
   {SessionRequest("ValidateSessionToken", <<"t">>, <<"u">>),
    SessionRequest("RefreshSessionToken", <<"u">>, <<"t">>)},
   {GroupRequest("ValidateGroup", <<"a">>, GroupsOne),
    GroupRequest("UserGroups", <<"a">>, GroupsOne)},
   {RedeemRequest(<<"t">>), SessionRequest("ValidateSessionToken", <<"t">>, <<"t">>)}}

\* the calls a caller can issue
Requests == UNION Workloads

(* --------------------- keys (fmt.Sprintf, line 54) --------------------- *)

PrepareNoSort(r) == r

\* the request as the method body sees it before calling p.do:
\* UserGroups sorts its groups slice in place first
Prepare(r) ==
  IF r.op = "UserGroups" THEN [r EXCEPT !.groups = SortStrings(@)] ELSE r

\* the key argument each method passes to p.do
ArgKey(r) ==
  CASE r.op \in {"ValidateGroup", "UserGroups"} -> r.email \o <<":">> \o Join(r.groups, <<",">>)
    [] r.op = "ValidateSessionToken" -> r.session.AccessToken
    [] r.op = "RefreshSessionToken" -> r.session.RefreshToken
    [] OTHER -> r.code

CompositeKeyWithoutEndpoint(endpoint, key) == key

\* compositeKey := fmt.Sprintf("%s/%s", endpoint, key)
CompositeKey(endpoint, key) == endpoint \o <<"/">> \o key

KeyOf(r) == CompositeKey(Endpoint(r.op), ArgKey(r))

(* ------------------- values, boxing and unboxing ----------------------- *)

Nil == "nil"
ErrUpstream == "upstream error"
ErrUnexpectedReturnType == "received unexpected return type from single flight func call"

NilBox == [type |-> "nil", v |-> <<>>]
Box(type, vals) == [type |-> type, v |-> vals]

Result(vals, err) == [vals |-> vals, err |-> err]
NoResult == Result(<<>>, Nil)

\* what the wrapped provider may answer to a request
UpstreamOutcomes(r) ==
  CASE r.op = "ValidateGroup" ->
         {Result(<<r.groups, TRUE>>, Nil), Result(<<<<>>, FALSE>>, Nil),
          Result(<<<<>>, FALSE>>, ErrUpstream)}
    [] r.op = "UserGroups" ->
         {Result(<<r.groups>>, Nil), Result(<<<<>>>>, ErrUpstream)}
    [] r.op = "ValidateSessionToken" -> {Result(<<TRUE>>, Nil), Result(<<FALSE>>, Nil)}
    [] r.op = "RefreshSessionToken" ->
         {Result(<<TRUE>>, Nil), Result(<<FALSE>>, Nil), Result(<<FALSE>>, ErrUpstream)}
    [] r.op = "Redeem" ->
         {Result(<<[AccessToken |-> r.code, RefreshToken |-> r.code]>>, Nil),
          Result(<<NoSession>>, ErrUpstream)}
    [] OTHER -> {Result(<<r.op>>, Nil)}

\* the request as the function handed to p.do leaves it when it runs:
\* ValidateGroup's function sorts allowedGroups in place
ThunkArgs(r) ==
  IF r.op = "ValidateGroup" THEN [r EXCEPT !.groups = SortStrings(@)] ELSE r

ThunkSwallowsError(op, up) ==
  CASE op = "ValidateGroup" ->
         IF up.err # Nil THEN [val |-> NilBox, err |-> up.err]
         ELSE [val |-> Box("*Response", up.vals), err |-> Nil]
    [] op = "UserGroups" -> [val |-> Box("[]string", up.vals), err |-> up.err]
    [] OTHER -> [val |-> Box("bool", up.vals), err |-> Nil]

\* the (interface{}, error) pair the function handed to p.do returns
Thunk(op, up) ==
  CASE op = "ValidateGroup" ->
         IF up.err # Nil THEN [val |-> NilBox, err |-> up.err]
         ELSE [val |-> Box("*Response", up.vals), err |-> Nil]
    [] op = "UserGroups" -> [val |-> Box("[]string", up.vals), err |-> up.err]
    [] op = "ValidateSessionToken" -> [val |-> Box("bool", up.vals), err |-> Nil]
    [] OTHER -> [val |-> Box("bool", up.vals), err |-> up.err]

UnboxTypeFirst(op, resp, err) ==
  CASE op = "ValidateGroup" ->
         IF resp.type # "*Response" THEN Result(<<<<>>, FALSE>>, ErrUnexpectedReturnType)
         ELSE IF err # Nil THEN Result(<<<<>>, FALSE>>, err)
         ELSE Result(resp.v, Nil)
    [] op = "UserGroups" ->
         IF resp.type # "[]string" THEN Result(<<<<>>>>, ErrUnexpectedReturnType)
         ELSE IF err # Nil THEN Result(<<<<>>>>, err)
         ELSE Result(resp.v, Nil)
    [] op = "ValidateSessionToken" ->
         IF resp.type # "bool" \/ err # Nil THEN Result(<<FALSE>>, Nil)
         ELSE Result(resp.v, Nil)
    [] OTHER ->
         IF resp.type # "bool" THEN Result(<<FALSE>>, ErrUnexpectedReturnType)
         ELSE IF err # Nil THEN Result(<<FALSE>>, err)
         ELSE Result(resp.v, Nil)

\* what each method makes of the (resp, err) pair p.do returns
Unbox(op, resp, err) ==
  CASE op = "ValidateGroup" ->
         IF err # Nil THEN Result(<<<<>>, FALSE>>, err)
         ELSE IF resp.type # "*Response" THEN Result(<<<<>>, FALSE>>, ErrUnexpectedReturnType)
         ELSE Result(resp.v, Nil)
    [] op = "UserGroups" ->
         IF err # Nil THEN Result(<<<<>>>>, err)
         ELSE IF resp.type # "[]string" THEN Result(<<<<>>>>, ErrUnexpectedReturnType)
         ELSE Result(resp.v, Nil)
    [] op = "ValidateSessionToken" ->
         IF err # Nil THEN Result(<<FALSE>>, Nil)
         ELSE IF resp.type # "bool" THEN Result(<<FALSE>>, Nil)
         ELSE Result(resp.v, Nil)
    [] OTHER ->
         IF err # Nil THEN Result(<<FALSE>>, err)
         ELSE IF resp.type # "bool" THEN Result(<<FALSE>>, ErrUnexpectedReturnType)
         ELSE Result(resp.v, Nil)

\* the access token a successful refresh writes into the SessionState it was given
Refreshed == <<"a">>

\* the request's SessionState once the wrapped provider has answered up
UpstreamEffect(r, up) ==
  IF r.op = "RefreshSessionToken" /\ up.err = Nil /\ up.vals = <<TRUE>>
    THEN [r EXCEPT !.session.AccessToken = Refreshed]
    ELSE r

ErrSink == "metrics sink unavailable"

\* what StatsdClient.Incr returns
IncrOutcome(s) == IF s = "ok" THEN Nil ELSE ErrSink

DoResultSinkError(resp, err, sinkErr) ==
  [val |-> resp, err |-> IF sinkErr # Nil THEN sinkErr ELSE err]

\* return resp, err: the pair p.do hands back; the value Incr returned is dropped
DoResult(resp, err, sinkErr) == [val |-> resp, err |-> err]

\* if shared > 0 { p.StatsdClient.Incr(...) }
ShouldEmit(shared) == shared > 0

\* the value passed to Incr: float64(shared)
MetricDelta(shared) == shared

(* ------------------------------- state --------------------------------- *)
(* Every caller is one goroutine serving one inbound request: it issues one *)
(* call of a SingleFlightProvider method and returns.                      *)

VARIABLES
  pc,       \* where each caller stands in its call
  req,      \* the arguments of each caller's call (its own slice, its own session)
  cref,     \* the InFlightCall each caller joined (0: none)
  shared,   \* the joiner count p.single.Do returned to each caller
  ret,      \* what each caller's method returned
  invoked,  \* how often the caller's own goroutine invoked the wrapped provider
  m,        \* the group's index: key -> InFlightCall
  calls,    \* every InFlightCall created so far
  workload, \* the calls this run issues
  sink      \* the metrics sink: "ok" or "down"

(* A call of RunValidators or RunValidatorsWithGracePeriod (package options). *)
VARIABLES
  validators,       \* the validators argument: what each Validate(session) returns
  entry,            \* the function that was called
  vpc,              \* where the call stands
  evaluated,        \* the positions of the validators evaluated so far, in order
  validatorErrors,  \* RunValidators' validatorErrors slice
  graceErrors,      \* RunValidatorsWithGracePeriod's validatorErrors slice
  reports,          \* what IsWithinGracePeriod reported for each error looked at
  vret              \* the slice returned to the caller

(* A method's handling of the (resp, err) pair p.do returned, on its own. *)
VARIABLES
  unboxIn,          \* the operation and the pair
  unboxOut          \* what the method returned

providerVars == <<pc, req, cref, shared, ret, invoked, m, calls, workload, sink>>
pipelineVars == <<validators, entry, vpc, evaluated, validatorErrors, graceErrors, reports, vret>>
unboxVars == <<unboxIn, unboxOut>>

\* what no method of SingleFlightProvider changes
fixed == <<workload, sink, pipelineVars, unboxVars>>

vars == <<providerVars, pipelineVars, unboxVars>>

NoUnbox == [op |-> "none", resp |-> NilBox, err |-> Nil]

\* no call has been issued
ProviderIdle ==
  /\ pc = [p \in Callers |-> "idle"]
  /\ req = [p \in Callers |-> NoRequest]
  /\ cref = [p \in Callers |-> 0]
  /\ shared = [p \in Callers |-> 0]
  /\ ret = [p \in Callers |-> NoResult]
  /\ invoked = [p \in Callers |-> 0]
  /\ m = <<>>
  /\ calls = <<>>

PipelineIdle ==
  /\ validators = <<>>
  /\ entry = "none"
  /\ vpc = "idle"
  /\ evaluated = <<>>
  /\ validatorErrors = <<>>
  /\ graceErrors = <<>>
  /\ reports = <<>>
  /\ vret = <<>>

UnboxIdle ==
  /\ unboxIn = NoUnbox
  /\ unboxOut = NoResult

Init ==
  /\ ProviderIdle
  /\ workload \in Workloads
  /\ sink = "ok"
  /\ PipelineIdle
  /\ UnboxIdle

(* ------------------------- the coalescing group ------------------------ *)

NeverFound(idx, key) == FALSE

\* is there an InFlightCall for key in the index
Lookup(idx, key) == key \in DOMAIN idx

InitialCountZero == 1 - 1

\* the joiner count of a fresh InFlightCall: the leader is joiner #1
InitialCount == 1

\* a follower registers itself
Joined(count) == count + 1

KeptInIndex(idx, key) == idx

\* the index once the leader has removed its key
Removed(idx, key) == [k \in DOMAIN idx \ {key} |-> idx[k]]

HeldDuringWork(p) == \E q \in Callers \ {p} : pc[q] = "working"

\* does another caller hold the index lock: the lock brackets the lookup/register
\* step and the remove step only, so between steps nobody holds it
IndexLockedFor(p) == FALSE

AllJoiners(c) == c.joiners

\* the callers whose SessionState the function run for an InFlightCall hands to the
\* wrapped provider: the function is the leader's closure, which captured its own s
SessionPassed(c) == {c.leader}

\* a fresh InFlightCall; execs, up, leader, joiners and emits record its history
NewCall(key, op, p) ==
  [key |-> key, op |-> op, val |-> NilBox, err |-> Nil, count |-> InitialCount,
   done |-> FALSE, execs |-> 0, up |-> NoResult, leader |-> p, joiners |-> {p},
   emits |-> {}]

\* Execute, no InFlightCall for the key: the caller becomes the leader, registers
\* the call and starts the function, which calls the wrapped provider
DoLead(p, r) ==
  /\ pc[p] = "idle"
  /\ Coalesced(r.op)
  /\ ~IndexLockedFor(p)
  /\ ~Lookup(m, KeyOf(Prepare(r)))
  /\ calls' = Append(calls, [NewCall(KeyOf(Prepare(r)), r.op, p) EXCEPT !.execs = @ + 1])
  /\ m' = (KeyOf(Prepare(r)) :> (Len(calls) + 1)) @@ m
  /\ cref' = [cref EXCEPT ![p] = Len(calls) + 1]
  /\ req' = [req EXCEPT ![p] = ThunkArgs(Prepare(r))]
  /\ invoked' = [invoked EXCEPT ![p] = @ + 1]
  /\ pc' = [pc EXCEPT ![p] = "working"]
  /\ UNCHANGED <<shared, ret, fixed>>

\* Execute, an InFlightCall exists for the key: the caller becomes a follower
DoJoin(p, r) ==
  /\ pc[p] = "idle"
  /\ Coalesced(r.op)
  /\ ~IndexLockedFor(p)
  /\ Lookup(m, KeyOf(Prepare(r)))
  /\ LET c == m[KeyOf(Prepare(r))] IN
       /\ calls' = [calls EXCEPT ![c].count = Joined(@), ![c].joiners = @ \cup {p}]
       /\ cref' = [cref EXCEPT ![p] = c]
  /\ req' = [req EXCEPT ![p] = Prepare(r)]
  /\ pc' = [pc EXCEPT ![p] = "wait"]
  /\ UNCHANGED <<shared, ret, invoked, m, fixed>>

\* completion: the wrapped provider answers, the function returns its pair, and the
\* leader stores the pair, removes the key and releases the followers
Complete(p) ==
  /\ pc[p] = "working"
  /\ ~IndexLockedFor(p)
  /\ \E up \in UpstreamOutcomes(req[p]) :
       /\ calls' = [calls EXCEPT ![cref[p]].up = up,
                                 ![cref[p]].val = Thunk(req[p].op, up).val,
                                 ![cref[p]].err = Thunk(req[p].op, up).err,
                                 ![cref[p]].done = TRUE]
       /\ req' = [q \in Callers |->
                   IF q \in SessionPassed(calls[cref[p]])
                     THEN UpstreamEffect(req[q], up) ELSE req[q]]
  /\ m' = Removed(m, calls[cref[p]].key)
  /\ pc' = [pc EXCEPT ![p] = "wake"]
  /\ UNCHANGED <<cref, shared, ret, invoked, fixed>>

\* the rest of p.do and of the method, once p.single.Do has returned (resp, shared, err)
Return(p) ==
  LET c == calls[cref[p]]
      sinkErr == IF ShouldEmit(c.count) THEN IncrOutcome(sink) ELSE Nil
      out == DoResult(c.val, c.err, sinkErr)
  IN
    /\ shared' = [shared EXCEPT ![p] = c.count]
    /\ calls' = [calls EXCEPT
                   ![cref[p]].emits =
                      IF ShouldEmit(c.count)
                        THEN @ \cup {[by |-> p, op |-> req[p].op,
                                      delta |-> MetricDelta(c.count),
                                      failed |-> sinkErr # Nil]}
                        ELSE @]
    /\ ret' = [ret EXCEPT ![p] = Unbox(req[p].op, out.val, out.err)]
    /\ pc' = [pc EXCEPT ![p] = "done"]
    /\ UNCHANGED <<req, cref, invoked, m, fixed>>

LeaderReturn(p) ==
  /\ pc[p] = "wake"
  /\ Return(p)

NeverReleased(c) == FALSE

\* the completion signal of an InFlightCall
Released(c) == c.done

\* a follower is released by the completion signal of the call it joined
FollowerReturn(p) ==
  /\ pc[p] = "wait"
  /\ Released(calls[cref[p]])
  /\ Return(p)

(* ------------------------ pass-through methods ------------------------- *)

\* Data, Redeem, GetSignInURL, GetSignOutURL: return p.provider.X(...)
PassCall(p, r) ==
  /\ pc[p] = "idle"
  /\ ~Coalesced(r.op)
  /\ req' = [req EXCEPT ![p] = Prepare(r)]
  /\ invoked' = [invoked EXCEPT ![p] = @ + 1]
  /\ pc' = [pc EXCEPT ![p] = "up"]
  /\ UNCHANGED <<cref, shared, ret, m, calls, fixed>>

PassResultWithoutError(up) == [up EXCEPT !.err = Nil]

\* return p.provider.X(...): the wrapped provider's answer as it is
PassResult(up) == up

PassReturn(p) ==
  /\ pc[p] = "up"
  /\ \E up \in UpstreamOutcomes(req[p]) : ret' = [ret EXCEPT ![p] = PassResult(up)]
  /\ pc' = [pc EXCEPT ![p] = "done"]
  /\ UNCHANGED <<req, cref, shared, invoked, m, calls, fixed>>

Step(p) ==
  \/ \E r \in workload : DoLead(p, r)
  \/ \E r \in workload : DoJoin(p, r)
  \/ \E r \in workload : PassCall(p, r)
  \/ Complete(p)
  \/ LeaderReturn(p)
  \/ FollowerReturn(p)
  \/ PassReturn(p)

Next == \E p \in Callers : Step(p)

Spec == Init /\ [][Next]_vars

\* one mix of calls of each kind: permuted lists, sessions sharing a token, a
\* pass-through call next to a coalesced one
CoreWorkloads ==
  {Permuted("UserGroups"), OtherAccess("RefreshSessionToken"),
   {RedeemRequest(<<"t">>), SessionRequest("ValidateSessionToken", <<"t">>, <<"t">>)}}

\* the provider with a metrics sink that works or fails
SinkInit ==
  /\ ProviderIdle
  /\ workload \in CoreWorkloads
  /\ sink \in {"ok", "down"}
  /\ PipelineIdle
  /\ UnboxIdle

SinkSpec == SinkInit /\ [][Next]_vars

\* a goroutine that can return does return; nothing makes the wrapped provider answer
FairSpec ==
  /\ SinkSpec
  /\ \A p \in Callers : WF_vars(LeaderReturn(p)) /\ WF_vars(FollowerReturn(p))

(* ------------------- the validator runners (package options) ----------- *)

ErrInvalidEmailAddress == "Invalid Email Address In Session State"
ErrValidationError == "Error during validation"
GroupValidationError == "*providers.GroupValidationError"

\* what a validator's Validate(session) may return
ValidateOutcomes == {Nil, ErrInvalidEmailAddress, ErrValidationError, GroupValidationError}

\* the validators arguments: every list of up to MaxValidators validators
ValidatorLists == UNION {[1..n -> ValidateOutcomes] : n \in 0..MaxValidators}

\* what IsWithinGracePeriod() may report
GraceReports == {"within", "outside"}
NotAsked == "not asked"

FailFast(n, vs, errs) == n < Len(vs) /\ errs = <<>>

\* for _, validator := range validators: is there a validator left after n of them
KeepValidating(n, vs, errs) == n < Len(vs)

\* if err != nil { validatorErrors = append(validatorErrors, err) }
AppendIfError(errs, err) == IF err # Nil THEN Append(errs, err) ELSE errs

\* err, ok := err.(*providers.GroupValidationError)
IsGroupValidationError(err) == err = GroupValidationError

SuppressedWhateverWindow(err, report) == IsGroupValidationError(err)

\* the continue of the filter loop: a GroupValidationError within its grace period
Suppressed(err, report) == IsGroupValidationError(err) /\ report = "within"

\* RunValidators(validators, session) or RunValidatorsWithGracePeriod(validators, session)
\* is called
CallRunner(f) ==
  /\ vpc = "idle"
  /\ entry' = f
  /\ vpc' = "validating"
  /\ UNCHANGED <<validators, evaluated, validatorErrors, graceErrors, reports, vret,
                 providerVars, unboxVars>>

\* one round of RunValidators' loop
Validate ==
  /\ vpc = "validating"
  /\ KeepValidating(Len(evaluated), validators, validatorErrors)
  /\ LET i == Len(evaluated) + 1 IN
       /\ evaluated' = Append(evaluated, i)
       /\ validatorErrors' = AppendIfError(validatorErrors, validators[i])
  /\ UNCHANGED <<validators, entry, vpc, graceErrors, reports, vret, providerVars, unboxVars>>

\* return validatorErrors, to the caller or to RunValidatorsWithGracePeriod's loop
RunValidatorsReturn ==
  /\ vpc = "validating"
  /\ ~KeepValidating(Len(evaluated), validators, validatorErrors)
  /\ IF entry = "RunValidators"
       THEN vpc' = "returned" /\ vret' = validatorErrors
       ELSE vpc' = "filtering" /\ vret' = vret
  /\ UNCHANGED <<validators, entry, evaluated, validatorErrors, graceErrors, reports,
                 providerVars, unboxVars>>

\* one round of RunValidatorsWithGracePeriod's loop
Filter ==
  /\ vpc = "filtering"
  /\ Len(reports) < Len(validatorErrors)
  /\ LET err == validatorErrors[Len(reports) + 1] IN
       \E report \in (IF IsGroupValidationError(err) THEN GraceReports ELSE {NotAsked}) :
         /\ reports' = Append(reports, report)
         /\ graceErrors' = IF Suppressed(err, report) THEN graceErrors
                                                      ELSE Append(graceErrors, err)
  /\ UNCHANGED <<validators, entry, vpc, evaluated, validatorErrors, vret,
                 providerVars, unboxVars>>

GraceReturn ==
  /\ vpc = "filtering"
  /\ Len(reports) = Len(validatorErrors)
  /\ vret' = graceErrors
  /\ vpc' = "returned"
  /\ UNCHANGED <<validators, entry, evaluated, validatorErrors, graceErrors, reports,
                 providerVars, unboxVars>>

ValidatorInit ==
  /\ ProviderIdle
  /\ workload = {}
  /\ sink = "ok"
  /\ UnboxIdle
  /\ validators \in ValidatorLists
  /\ entry = "none"
  /\ vpc = "idle"
  /\ evaluated = <<>>
  /\ validatorErrors = <<>>
  /\ graceErrors = <<>>
  /\ reports = <<>>
  /\ vret = <<>>

ValidatorNext ==
  \/ \E f \in {"RunValidators", "RunValidatorsWithGracePeriod"} : CallRunner(f)
  \/ Validate
  \/ RunValidatorsReturn
  \/ Filter
  \/ GraceReturn

ValidatorSpec == ValidatorInit /\ [][ValidatorNext]_vars

(* ------------------- a method's unboxing, on its own ------------------- *)

\* the boxed values p.do may hand to a method
Boxes ==
  {NilBox, Box("*Response", <<GroupsAB, TRUE>>), Box("*Response", <<<<>>, FALSE>>),
   Box("[]string", <<GroupsAB>>), Box("[]string", <<<<>>>>),
   Box("bool", <<TRUE>>), Box("bool", <<FALSE>>)}

\* the operation and the (resp, err) pair its p.do call returned
UnboxInputs == [op : CoalescedOps, resp : Boxes, err : {Nil, ErrUpstream}]

\* the rest of the method after p.do: the error check, the type assertion, the return
UnboxReturn ==
  /\ unboxIn # NoUnbox
  /\ unboxOut = NoResult
  /\ unboxOut' = Unbox(unboxIn.op, unboxIn.resp, unboxIn.err)
  /\ UNCHANGED <<unboxIn, providerVars, pipelineVars>>

UnboxInit ==
  /\ ProviderIdle
  /\ workload = {}
  /\ sink = "ok"
  /\ PipelineIdle
  /\ unboxIn \in UnboxInputs
  /\ unboxOut = NoResult

UnboxSpec == UnboxInit /\ [][UnboxReturn]_vars

(* ------------------------------ claims --------------------------------- *)

\* what a solo caller of the method gets when the wrapped provider answers up
Delivered(op, up) ==
  CASE op = "ValidateGroup" ->
         IF up.err # Nil THEN Result(<<<<>>, FALSE>>, up.err) ELSE Result(up.vals, Nil)
    [] op = "UserGroups" ->
         IF up.err # Nil THEN Result(<<<<>>>>, up.err) ELSE Result(up.vals, Nil)
    [] op = "ValidateSessionToken" -> Result(up.vals, Nil)
    [] OTHER -> IF up.err # Nil THEN Result(<<FALSE>>, up.err) ELSE Result(up.vals, Nil)

\* the zero values a method returns next to an error
ZeroVals(op) ==
  CASE op = "ValidateGroup" -> <<<<>>, FALSE>>
    [] op = "UserGroups" -> <<<<>>>>
    [] OTHER -> <<FALSE>>

\* the key a caller's method derived from the arguments it was given
IssuedKey(p) == KeyOf(Prepare([req[p] EXCEPT !.groups = req[p].given]))

Active(p) == cref[p] # 0 /\ ~calls[cref[p]].done

CallIds == DOMAIN calls
Sharing(c) == {p \in Callers : cref[p] = c}
Returned(p) == pc[p] = "done" /\ cref[p] # 0

\* C1: callers that ask for a key while its work is executing share one execution:
\* the work of an InFlightCall runs exactly once, on the leader's goroutine only,
\* and every caller of the call returns the pair that one execution produced.
C1_SingleExecution ==
  /\ \A c \in CallIds :
       /\ calls[c].execs = 1
       /\ Cardinality({p \in Sharing(c) : invoked[p] = 1}) = 1
       /\ \A p \in Sharing(c) : invoked[p] = (IF calls[c].leader = p THEN 1 ELSE 0)
  /\ \A p \in Callers :
       Returned(p) => ret[p] = Delivered(req[p].op, calls[cref[p]].up)
  /\ \A p, q \in Callers :
       Returned(p) /\ Returned(q) /\ cref[p] = cref[q] => ret[p] = ret[q]
  /\ \A p, q \in Callers :
       Active(p) /\ Active(q) /\ IssuedKey(p) = IssuedKey(q) => cref[p] = cref[q]

C1_Witness ==
  \E p, q \in Callers :
    /\ p # q /\ Returned(p) /\ Returned(q) /\ cref[p] = cref[q]
    /\ invoked[p] = 1 /\ invoked[q] = 0
    /\ ret[p] = ret[q] /\ ret[q].err = ErrUpstream

\* C2: the joiner count Execute returns is the same for the leader and every
\* follower of an execution and is the number of callers that shared it.
C2_JoinerCount ==
  \A p \in Callers :
    Returned(p) => /\ shared[p] = Cardinality(Sharing(cref[p]))
                   /\ shared[p] = Cardinality(calls[cref[p]].joiners)
                   /\ shared[p] >= 1

C2_Witness ==
  \E p, q \in Callers :
    /\ p # q /\ Returned(p) /\ Returned(q) /\ cref[p] = cref[q]
    /\ shared[p] = 2 /\ shared[q] = 2
    /\ calls[cref[p]].leader = p

\* C3: a call that starts once the execution for its key has completed never joins
\* the completed InFlightCall: it becomes the leader of a fresh one and runs the work.
C3_FreshAfterCompletion ==
  [][\A p \in Callers :
       pc[p] = "idle" /\ cref'[p] # 0 =>
         /\ cref'[p] \in CallIds => ~calls[cref'[p]].done
         /\ (\A c \in CallIds : calls[c].key = calls'[cref'[p]].key => calls[c].done) =>
              /\ cref'[p] \notin CallIds
              /\ pc'[p] = "working"
              /\ invoked'[p] = 1
              /\ calls'[cref'[p]].leader = p]_vars

C3_Witness ==
  \E p, q \in Callers :
    /\ Returned(p) /\ Returned(q) /\ cref[p] < cref[q]
    /\ calls[cref[p]].key = calls[cref[q]].key
    /\ invoked[p] = 1 /\ invoked[q] = 1
    /\ ret[p] # ret[q]

\* C4: for every key at most one InFlightCall is active (created, not completed),
\* and the index holds exactly the active ones.
C4_OneActivePerKey ==
  /\ \A c, d \in CallIds :
       c # d /\ calls[c].key = calls[d].key => calls[c].done \/ calls[d].done
  /\ \A c \in CallIds :
       ~calls[c].done <=> (calls[c].key \in DOMAIN m /\ m[calls[c].key] = c)

C4_Witness ==
  \E c, d \in CallIds :
    /\ c < d /\ calls[c].key = calls[d].key
    /\ calls[c].done /\ ~calls[d].done
    /\ pc[calls[c].leader] = "wake" /\ pc[calls[d].leader] = "working"

\* C5: when the wrapped provider's ValidateGroup, UserGroups or RefreshSessionToken
\* returns an error, the leader and every follower return exactly that error and
\* no success value.
C5_ErrorVerbatim ==
  \A p \in Callers :
    /\ Returned(p)
    /\ req[p].op \in {"ValidateGroup", "UserGroups", "RefreshSessionToken"}
    /\ calls[cref[p]].up.err # Nil
    => /\ ret[p].err = calls[cref[p]].up.err
       /\ ret[p].vals = ZeroVals(req[p].op)

C5_Witness ==
  \E p, q \in Callers :
    /\ p # q /\ Returned(p) /\ Returned(q) /\ cref[p] = cref[q]
    /\ req[p].op = "ValidateGroup"
    /\ calls[cref[p]].up.err = ErrUpstream
    /\ ret[p].err = ErrUpstream /\ ret[q].err = ErrUpstream

\* the two slices hold the same strings, in any order
IsPermutation(s, t) == SortStrings(s) = SortStrings(t)

GroupSet(l) == {l[i] : i \in DOMAIN l}

GroupCall(p, op) == cref[p] # 0 /\ req[p].op = op

\* C6: two concurrent ValidateGroup calls with the same email whose allowedGroups
\* are permutations of each other derive the same key and share one execution.
C6_ValidateGroupPermutationsCoalesce ==
  \A p, q \in Callers :
    /\ GroupCall(p, "ValidateGroup") /\ GroupCall(q, "ValidateGroup")
    /\ req[p].email = req[q].email
    /\ IsPermutation(req[p].given, req[q].given)
    => /\ calls[cref[p]].key = calls[cref[q]].key
       /\ Active(p) /\ Active(q) => cref[p] = cref[q]

\* C7: two concurrent UserGroups calls with the same email whose groups are
\* permutations of each other derive the same key and share one upstream call,
\* whose result both receive.
C7_UserGroupsPermutationsCoalesce ==
  \A p, q \in Callers :
    /\ GroupCall(p, "UserGroups") /\ GroupCall(q, "UserGroups")
    /\ req[p].email = req[q].email
    /\ IsPermutation(req[p].given, req[q].given)
    => /\ calls[cref[p]].key = calls[cref[q]].key
       /\ Active(p) /\ Active(q) => cref[p] = cref[q]
       /\ cref[p] = cref[q] => /\ calls[cref[p]].execs = 1
                               /\ Cardinality({x \in Sharing(cref[p]) : invoked[x] = 1}) = 1
                               /\ Returned(p) /\ Returned(q) => ret[p] = ret[q]

C7_Witness ==
  \E p, q \in Callers :
    /\ GroupCall(p, "UserGroups") /\ GroupCall(q, "UserGroups")
    /\ req[p].given = GroupsBA /\ req[q].given = GroupsAB
    /\ cref[p] = cref[q]
    /\ Returned(p) /\ Returned(q)
    /\ invoked[p] + invoked[q] = 1
    /\ ret[p] = Result(<<GroupsAB>>, Nil) /\ ret[q] = ret[p]

\* the two requests are the same logical call
SameCall(r1, r2) ==
  /\ r1.op = r2.op
  /\ r1.op \in {"ValidateGroup", "UserGroups"} =>
       r1.email = r2.email /\ GroupSet(r1.given) = GroupSet(r2.given)
  /\ r1.op = "ValidateSessionToken" => r1.session.AccessToken = r2.session.AccessToken
  /\ r1.op = "RefreshSessionToken" => r1.session.RefreshToken = r2.session.RefreshToken

\* alphanumeric names of one or two characters
Names == {<<"a">>, <<"b">>, <<"a", "b">>, <<"b", "a">>}
NameLists == {<<>>} \cup {<<x>> : x \in Names} \cup {<<x, y>> : x, y \in Names}

\* the calls keys are compared over
KeyedRequests ==
  {GroupRequest(op, e, g) : op \in {"ValidateGroup", "UserGroups"}, e \in Names, g \in NameLists}
    \cup {SessionRequest(op, a, r) :
            op \in {"ValidateSessionToken", "RefreshSessionToken"}, a \in Names, r \in Names}

KeysSeparate ==
  \A r1, r2 \in KeyedRequests : KeyOf(Prepare(r1)) = KeyOf(Prepare(r2)) => SameCall(r1, r2)

\* C8: calls that differ in the email, in the set of groups or in the token get
\* different keys and never share an execution.
C8_DistinctCallsDistinctKeys ==
  /\ KeysSeparate
  /\ \A p, q \in Callers :
       cref[p] # 0 /\ cref[q] # 0 /\ ~SameCall(req[p], req[q]) =>
         /\ IssuedKey(p) # IssuedKey(q)
         /\ calls[cref[p]].key # calls[cref[q]].key
         /\ cref[p] # cref[q]

C8_Witness ==
  \E p, q \in Callers :
    /\ GroupCall(p, "UserGroups") /\ GroupCall(q, "UserGroups")
    /\ req[p].email = req[q].email
    /\ req[p].given = GroupsAB /\ req[q].given = GroupsOne
    /\ pc[p] = "working" /\ pc[q] = "working"
    /\ cref[p] # cref[q]

RedeemCallers == {p \in Callers : req[p].op = "Redeem"}

\* C9: Redeem is never coalesced: every Redeem call invokes the wrapped provider's
\* Redeem itself, so there are as many upstream invocations as Redeem calls.
C9_RedeemNotCoalesced ==
  /\ \A p \in RedeemCallers : invoked[p] = 1 /\ cref[p] = 0
  /\ Cardinality({p \in RedeemCallers : invoked[p] = 1}) = Cardinality(RedeemCallers)

C9_Witness ==
  \E p, q \in RedeemCallers :
    /\ p # q /\ req[p].code = req[q].code
    /\ pc[p] = "up" /\ pc[q] = "up"
    /\ invoked[p] = 1 /\ invoked[q] = 1

AllReturned(c) == \A p \in calls[c].joiners : pc[p] = "done"

\* C10: the duplication metric is emitted exactly once per completed execution
\* that had more than one joiner, not once per caller: two simultaneous calls for
\* one key cause one emission in total.
C10_OneMetricPerSharedExecution ==
  \A c \in CallIds :
    Cardinality(calls[c].joiners) > 1 =>
      /\ Cardinality(calls[c].emits) <= 1
      /\ AllReturned(c) => Cardinality(calls[c].emits) = 1

\* C11: every emission of the duplication metric happens only for a joiner count
\* above 1, is tagged with the emitting operation's name, and reports the joiner
\* count minus one (the followers).
C11_MetricOnlyForFollowers ==
  \A c \in CallIds : \A e \in calls[c].emits :
    /\ shared[e.by] > 1
    /\ e.op = calls[c].op
    /\ e.delta = shared[e.by] - 1

RECURSIVE Failures(_)
\* the errors of the failing validators, in validator order
Failures(vs) ==
  IF vs = <<>> THEN <<>>
  ELSE IF Head(vs) = Nil THEN Failures(Tail(vs))
  ELSE <<Head(vs)>> \o Failures(Tail(vs))

RunValidatorsDone == vpc \in {"filtering", "returned"}

\* C12: RunValidators evaluates every validator exactly once, in list order, whatever
\* failed before, and returns exactly the errors of the failing validators in
\* validator order: as many errors as validators failed, none iff none failed.
C12_RunValidatorsCollectsAll ==
  /\ \A k \in DOMAIN evaluated : evaluated[k] = k
  /\ Len(evaluated) <= Len(validators)
  /\ RunValidatorsDone =>
       /\ Len(evaluated) = Len(validators)
       /\ validatorErrors = Failures(validators)
       /\ Len(validatorErrors) = Cardinality({k \in DOMAIN validators : validators[k] # Nil})
       /\ validatorErrors = <<>> <=> \A k \in DOMAIN validators : validators[k] = Nil
  /\ entry = "RunValidators" /\ vpc = "returned" => vret = validatorErrors

C12_Witness ==
  /\ entry = "RunValidators"
  /\ vpc = "returned"
  /\ validators = <<ErrInvalidEmailAddress, Nil, ErrValidationError>>
  /\ evaluated = <<1, 2, 3>>
  /\ vret = <<ErrInvalidEmailAddress, ErrValidationError>>

RECURSIVE WithoutGrace(_, _)
\* errs without the GroupValidationErrors reported within their grace period
WithoutGrace(errs, reps) ==
  IF errs = <<>> THEN <<>>
  ELSE IF Head(errs) = GroupValidationError /\ Head(reps) = "within"
    THEN WithoutGrace(Tail(errs), Tail(reps))
  ELSE <<Head(errs)>> \o WithoutGrace(Tail(errs), Tail(reps))

\* C13: RunValidatorsWithGracePeriod returns what RunValidators returns without
\* exactly the GroupValidationErrors that report being within their grace period;
\* every other error stays, in the same relative order.
C13_GracePeriodDropsOnlyWithin ==
  /\ \A j \in DOMAIN reports :
       reports[j] # NotAsked <=> validatorErrors[j] = GroupValidationError
  /\ entry = "RunValidatorsWithGracePeriod" /\ vpc = "returned" =>
       /\ validatorErrors = Failures(validators)
       /\ Len(reports) = Len(validatorErrors)
       /\ vret = WithoutGrace(validatorErrors, reports)
       /\ Len(vret) = Cardinality({j \in DOMAIN validatorErrors :
                                     ~(validatorErrors[j] = GroupValidationError
                                       /\ reports[j] = "within")})

C13_Witness ==
  /\ entry = "RunValidatorsWithGracePeriod"
  /\ vpc = "returned"
  /\ validators = <<GroupValidationError, GroupValidationError, ErrValidationError>>
  /\ reports = <<"within", "outside", NotAsked>>
  /\ vret = <<GroupValidationError, ErrValidationError>>

\* C14: once the leader's work for a key has terminated, the leader and every
\* follower of that execution eventually return, and the completed InFlightCall is
\* no longer in the index.
C14_JoinersEventuallyReturn ==
  \A p \in Callers :
    (cref[p] # 0 /\ calls[cref[p]].done) ~>
      /\ pc[p] = "done"
      /\ \A k \in DOMAIN m : m[k] # cref[p]

C14_Witness ==
  \E p, q \in Callers :
    /\ p # q /\ cref[p] = cref[q] /\ cref[p] # 0
    /\ calls[cref[p]].leader = p
    /\ calls[cref[p]].done
    /\ pc[p] = "done" /\ pc[q] = "done"
    /\ shared[q] = 2

ExpectedType(op) ==
  CASE op = "ValidateGroup" -> "*Response"
    [] op = "UserGroups" -> "[]string"
    [] OTHER -> "bool"

\* C16: when the shared execution succeeded and its boxed value is not of the shape
\* the operation expects, the method returns ErrUnexpectedReturnType, for each of the
\* four coalesced operations, and never a default value in its place.
C16_MismatchIsInternalError ==
  /\ unboxOut # NoResult
  /\ unboxIn.err = Nil
  /\ unboxIn.resp.type # ExpectedType(unboxIn.op)
  => unboxOut.err = ErrUnexpectedReturnType

\* C17: what a caller of a coalesced operation gets does not depend on the metrics
\* sink: with the sink failing, the caller still gets the result and the error of
\* the shared execution, and never the sink's failure.
C17_ResultIndependentOfSink ==
  \A p \in Callers :
    Returned(p) =>
      /\ ret[p] = Delivered(req[p].op, calls[cref[p]].up)
      /\ ret[p].err # ErrSink

C17_Witness ==
  \E p, q \in Callers :
    /\ p # q /\ Returned(p) /\ Returned(q) /\ cref[p] = cref[q]
    /\ sink = "down"
    /\ \E e \in calls[cref[p]].emits : e.by = q /\ e.failed
    /\ req[p].op = "RefreshSessionToken"
    /\ ret[p] = Result(<<TRUE>>, Nil) /\ ret[q] = ret[p]

PassThroughCallers == {p \in Callers : req[p].op \in PassThroughOps}

\* C18: Data, Redeem, GetSignInURL and GetSignOutURL invoke the wrapped provider's
\* operation exactly once per call with the caller's arguments and return its answer
\* unchanged; their steps leave the group's index and its InFlightCalls, and so the
\* emitted metrics, unchanged.
C18_PassThroughFrame ==
  /\ [](\A p \in PassThroughCallers :
          /\ invoked[p] = 1 /\ cref[p] = 0 /\ shared[p] = 0
          /\ req[p] \in workload
          /\ pc[p] = "done" => ret[p] \in UpstreamOutcomes(req[p])
          /\ \A c \in CallIds : p \notin calls[c].joiners
                                 /\ \A e \in calls[c].emits : e.by # p)
  /\ [][\A p \in Callers :
          pc'[p] # pc[p] /\ req'[p].op \in PassThroughOps =>
            /\ m' = m
            /\ calls' = calls
            /\ pc[p] = "up" => req'[p] = req[p] /\ invoked'[p] = invoked[p]]_vars

C18_Witness ==
  \E p, q \in Callers :
    /\ req[p].op = "Redeem" /\ pc[p] = "done"
    /\ ret[p] = Result(<<[AccessToken |-> <<"t">>, RefreshToken |-> <<"t">>]>>, Nil)
    /\ req[q].op = "ValidateSessionToken" /\ pc[q] = "working"
    /\ DOMAIN m # {}
    /\ invoked[p] = 1

SessionOps == {"ValidateSessionToken", "RefreshSessionToken"}

Arity(op) == IF op = "ValidateGroup" THEN 2 ELSE 1

\* C20: calls of different coalesced operations never share an execution, also when
\* their key arguments are the same string: the operation name prefixes the key, each
\* operation's upstream is invoked on its own and each caller gets a result of its
\* own operation.
C20_OperationsNeverShare ==
  \A p, q \in Callers :
    cref[p] # 0 /\ cref[q] # 0 /\ req[p].op # req[q].op =>
      /\ cref[p] # cref[q]
      /\ calls[cref[p]].key # calls[cref[q]].key
      /\ calls[cref[p]].op = req[p].op /\ calls[cref[q]].op = req[q].op
      /\ calls[cref[p]].leader # calls[cref[q]].leader
      /\ invoked[calls[cref[p]].leader] = 1 /\ invoked[calls[cref[q]].leader] = 1
      /\ SubSeq(calls[cref[p]].key, 1, Len(Endpoint(req[p].op)) + 1)
           = Endpoint(req[p].op) \o <<"/">>
      /\ Returned(p) => /\ ret[p] = Delivered(req[p].op, calls[cref[p]].up)
                        /\ calls[cref[p]].up \in UpstreamOutcomes(req[p])
                        /\ Len(ret[p].vals) = Arity(req[p].op)

C20_Witness ==
  \E p, q \in Callers :
    /\ req[p].op = "ValidateSessionToken" /\ req[q].op = "RefreshSessionToken"
    /\ ArgKey(req[p]) = ArgKey(req[q])
    /\ pc[p] = "working" /\ pc[q] = "working"
    /\ cref[p] # cref[q]
    /\ DOMAIN m = {KeyOf(req[p]), KeyOf(req[q])}

====
